---- MODULE Spec2Model ----
(***************************************************************************)
(* Temporal-consistency frame smoothing of project-aura:                   *)
(*   VideoProcessor.apply_temporal_consistency / _temporal_smooth          *)
(*     (backend/app/services/video/video_processor.py)                     *)
(*   DiffusionService._apply_enhanced_temporal_consistency /               *)
(*     _enhanced_temporal_smooth / _apply_color_consistency                *)
(*     (backend/app/services/ai/diffusion_service.py)                      *)
(* and, each under a specification of its own,                             *)
(*   the loop body run by independent workers (SpecPar),                   *)
(*   DiffusionService.transform_frames (SpecTransform),                    *)
(*   VideoProcessor._resize_frame (SpecResize),                            *)
(*   the job table of backend/app/api/endpoints/video.py (SpecJobs, and    *)
(*     SpecJobsFair with the background tasks scheduled fairly),           *)
(*   DiffusionService._apply_temporal_consistency run after                *)
(*     VideoProcessor's smoother on the same input (SpecEquiv),            *)
(*   VideoProcessor.extract_frames (SpecExtract),                          *)
(*   the empty-list checks of transform_frames, SVDService.transform_video,*)
(*     transform_video_with_control and create_video (SpecBoundary).       *)
(*                                                                         *)
(* Python objects are modelled with their identity: `arrays` is the heap   *)
(* of numpy buffers and `lists` the heap of Python lists, an object's id   *)
(* being its index.  A frame is an array of shape (1, w, 3): a record      *)
(* [w, px] with px a sequence of w pixels, each a sequence of 3 samples.   *)
(*                                                                         *)
(* Floating point.  exp() is tabulated in units of 1/100000 and the        *)
(* weighted sums are kept as exact fractions num/den.  The one effect of   *)
(* IEEE rounding that a truncating conversion to uint8 can observe: a      *)
(* float32 result whose exact value is a positive integer v may be stored  *)
(* as the float just below v, and astype(np.uint8) then yields v - 1.      *)
(* Which results do so depends on the operands and on numpy's promotion    *)
(* of `weights[i] * frame` (float32 before numpy 2, float64 since).  For   *)
(* the basic smoother the cases are tabulated (Float32Below); for the      *)
(* enhanced smoother, whose mean, quotient and product add roundings of    *)
(* their own, the windows of identical frames are tabulated                *)
(* (Float32BelowCorrected) and any other window has the per-call choice    *)
(* fp_below.                                                               *)
(***************************************************************************)
EXTENDS Integers, Sequences, FiniteSets, TLC

MaxLen == 4
MaxWindow == 5
ParLen == 3
TMaxLen == 5
MaxJobs == 2

Channels == 3

None == "None"

Modes == {"basic", "enhanced"}

(***************************************************************************)
(* Frames                                                                  *)
(***************************************************************************)
Solid(w, pixel) == [w |-> w, px |-> [p \in 1..w |-> pixel]]

Black == Solid(1, <<0, 0, 0>>)
White == Solid(1, <<255, 255, 255>>)
Tint  == Solid(1, <<100, 150, 200>>)
Wide  == [w |-> 2, px |-> <<(<<100, 150, 200>>), (<<200, 150, 0>>)>>]

FramePool == {Black, White, Tint, Wide}

InputSeqs == UNION {[1..n -> FramePool] : n \in 0..MaxLen}

Range(s) == {s[k] : k \in 1..Len(s)}

Max(a, b) == IF a >= b THEN a ELSE b
Min(a, b) == IF a <= b THEN a ELSE b

RECURSIVE SumSeq(_)
SumSeq(s) == IF s = <<>> THEN 0 ELSE s[1] + SumSeq(Tail(s))

(***************************************************************************)
(* Window selection (the loop body's index arithmetic); i is 0-based as in *)
(* the source, slices are half open.                                       *)
(***************************************************************************)
\* faulty variant: the lower clamp max(0, ...) forgotten
StartIdxUnclamped(i, window_size) == i - window_size \div 2

StartIdx(i, window_size) == Max(0, i - window_size \div 2)

\* faulty variant: the half window rounded up instead of down
EndIdxRoundedUp(i, window_size, n) == Min(n, i + (window_size + 1) \div 2 + 1)

EndIdx(i, window_size, n) == Min(n, i + window_size \div 2 + 1)

\* Python's s[a:b]: a negative bound counts from the end, both are clamped
SliceBound(x, n) == IF x < 0 THEN Max(0, x + n) ELSE Min(x, n)

Slice(s, a, b) ==
    LET lo == SliceBound(a, Len(s))
        hi == SliceBound(b, Len(s))
    IN  [k \in 1..Max(0, hi - lo) |-> s[lo + k]]

(***************************************************************************)
(* Weights: np.exp(-decay * np.square(np.arange(n) - center_idx)), in      *)
(* units of 1/100000, for the offsets a window of size <= 7 can have.      *)
(***************************************************************************)
Abs(x) == IF x < 0 THEN -x ELSE x

\* faulty variant: a decay so steep that only the centre frame counts
ExpBasicCenterOnly(d) == IF d = 0 THEN 100000 ELSE 0

ExpBasic(d) ==
    CASE d = 0 -> 100000  [] d = 1 -> 60653  [] d = 2 -> 13534  [] d = 3 -> 1111

ExpEnhanced(d) ==
    CASE d = 0 -> 100000  [] d = 1 -> 36788  [] d = 2 -> 1832   [] d = 3 -> 12

\* faulty variant: the line weights = weights / np.sum(weights) left out
NotNormalized(raw) == [num |-> raw, den |-> 100000]

\* no weight vector is computed for a window of one frame
NoWeights == [num |-> <<>>, den |-> 0]

\* weights / np.sum(weights): the fractions num[k] / den
NormalizeWeights(raw) == [num |-> raw, den |-> SumSeq(raw)]

BasicWeights(n, center_idx) ==
    NormalizeWeights([k \in 1..n |-> ExpBasic(Abs((k - 1) - center_idx))])

EnhancedWeights(n, center_idx) ==
    NormalizeWeights([k \in 1..n |-> ExpEnhanced(Abs((k - 1) - center_idx))])

(***************************************************************************)
(* Float frames.  A float32 frame produced by the weighted sum is          *)
(* [w, num, den]: sample (p, ch) has the exact value num[p][ch] / den.     *)
(***************************************************************************)
NoFrame == [w |-> 0, px |-> <<>>]

\* numpy broadcasting of an operand of width fw into an output of width sw
CanBroadcastInto(fw, sw) == fw = sw \/ fw = 1

BroadcastPx(f, p) == IF f.w = 1 THEN f.px[1] ELSE f.px[p]

\* smoothed = np.zeros_like(float_frames[0]); smoothed += weights[i] * frame
WeightedSum(win, wts) ==
    IF Len(win) = 0 \/ \E k \in 1..Len(win) : ~CanBroadcastInto(win[k].w, win[1].w)
    THEN [raised |-> TRUE]
    ELSE [raised |-> FALSE,
          w      |-> win[1].w,
          num    |-> [p \in 1..win[1].w |-> [ch \in 1..Channels |->
                       SumSeq([k \in 1..Len(win) |->
                                 wts.num[k] * BroadcastPx(win[k], p)[ch]])]],
          den    |-> wts.den]

\* floor and remainder of a * b / c without leaving 32 bits
RECURSIVE QuotRem(_, _, _)
QuotRem(a, b, c) ==
    IF b = 0 THEN <<0, 0>>
    ELSE LET h == QuotRem(a, b \div 2, c)
             t == 2 * h[2] + (b % 2) * (a % c)
         IN  <<2 * h[1] + (b % 2) * (a \div c) + t \div c, t % c>>

\* a float sample a * b / c: its integer part, whether it is that integer
\* exactly, and whether its fraction is at least one half
FloatSample(a, b, c) ==
    LET qr == QuotRem(a, b, c)
    IN  [q |-> qr[1], exact |-> qr[2] = 0, half |-> qr[2] > 0 /\ 2 * qr[2] >= c]

\* np.clip(x, 0, 255).astype(np.uint8): clamp, then truncate toward zero
ClipToUint8(s, below) ==
    IF s.q >= 255
    THEN IF s.q = 255 /\ s.exact /\ below THEN 254 ELSE 255
    ELSE IF s.exact /\ below /\ s.q > 0 THEN s.q - 1 ELSE s.q

\* below[ch]: whether the float32 results of channel ch lie below
ToUint8Frame(w, samples, below) ==
    [w  |-> w,
     px |-> [p \in 1..w |-> [ch \in 1..Channels |->
               ClipToUint8(samples[p][ch], below[ch])]]]

(***************************************************************************)
(* float32 evaluation of the basic weighted sum on a window whose exact    *)
(* result is an integer: the cases where the stored float lies below it,   *)
(* for the sample values 0, 100, 150, 200, 255 of FramePool, windows of    *)
(* up to 5 frames and centres up to 3.  vals are the samples of one pixel  *)
(* and channel along the window.                                           *)
(***************************************************************************)
Promotions == {"legacy", "nep50"}

Float32Below(promo, center_idx, vals) ==
    \/ /\ promo = "legacy"
       /\ \/ center_idx = 1 /\ vals = <<255, 255, 255>>
          \/ center_idx = 0 /\ vals = <<150, 150, 150, 150>>
    \/ /\ promo = "nep50"
       /\ center_idx = 0
       /\ vals \in {<<100, 100, 100>>, <<200, 200, 200>>,
                    <<150, 150, 150, 150>>}

(***************************************************************************)
(* VideoProcessor._temporal_smooth: decay 0.5, no colour correction.       *)
(* alias = TRUE: the returned object is window_frames[0] itself.           *)
(* samples: the float frame handed to np.clip(...).astype(np.uint8).       *)
(***************************************************************************)
temporal_smooth(win, center_idx, promo) ==
    IF Len(win) = 1
    THEN [raised |-> FALSE, alias |-> TRUE, frame |-> win[1],
          weights |-> NoWeights, ratio |-> <<>>, divisor |-> <<>>,
          samples |-> <<>>]
    ELSE LET wts == BasicWeights(Len(win), center_idx)
             sm  == WeightedSum(win, wts)
         IN  IF sm.raised
             THEN [raised |-> TRUE, alias |-> FALSE, frame |-> NoFrame,
                   weights |-> wts, ratio |-> <<>>, divisor |-> <<>>,
                   samples |-> <<>>]
             ELSE LET fl == [p \in 1..sm.w |-> [ch \in 1..Channels |->
                               FloatSample(sm.num[p][ch], 1, sm.den)]]
                  IN  [raised |-> FALSE, alias |-> FALSE, weights |-> wts,
                       ratio  |-> <<>>, divisor |-> <<>>, samples |-> fl,
                       frame  |-> [w  |-> sm.w,
                                   px |-> [p \in 1..sm.w |->
                                     [ch \in 1..Channels |->
                                       ClipToUint8(fl[p][ch],
                                         Float32Below(promo, center_idx,
                                           [k \in 1..Len(win) |->
                                              BroadcastPx(win[k], p)[ch]]))]]]]

(***************************************************************************)
(* DiffusionService._apply_color_consistency.  Per channel:                *)
(*   smoothed_mean = SN / (w * den),  center_mean = CN / wc                *)
(*   color_ratio   = clip(center_mean / (smoothed_mean + 1e-8), 0.8, 1.2)  *)
(* In float32, x + 1e-8 = x for every x >= 0.25, and a positive            *)
(* smoothed_mean below 0.25 needs a center_mean below 0.64 (the centre     *)
(* weight is at least 0.39), so the epsilon decides the quotient only      *)
(* when smoothed_mean = 0.                                                 *)
(***************************************************************************)
ChannelSum(pixels, ch) == SumSeq([p \in 1..Len(pixels) |-> pixels[p][ch]])

\* faulty variant: only the lower limit applied
ClipRatioLowOnly(r) ==
    IF 5 * r.n < 4 * r.d THEN [n |-> 4, d |-> 5, clipped |-> TRUE]
    ELSE [n |-> r.n, d |-> r.d, clipped |-> FALSE]

ClipRatio(r) ==
    IF 5 * r.n < 4 * r.d THEN [n |-> 4, d |-> 5, clipped |-> TRUE]
    ELSE IF 5 * r.n > 6 * r.d THEN [n |-> 6, d |-> 5, clipped |-> TRUE]
    ELSE [n |-> r.n, d |-> r.d, clipped |-> FALSE]

\* faulty variant: the epsilon left out
SmoothedMeanNoEps(sm, ch) ==
    [n |-> ChannelSum(sm.num, ch), d |-> sm.w * sm.den]

\* smoothed_mean + 1e-8 as a fraction n / d
SmoothedMeanPlusEps(sm, ch) ==
    IF ChannelSum(sm.num, ch) = 0
    THEN [n |-> 1, d |-> 100000000]
    ELSE [n |-> ChannelSum(sm.num, ch), d |-> sm.w * sm.den]

ColorRatio(sm, center, ch) ==
    LET dv == SmoothedMeanPlusEps(sm, ch)
        CN == ChannelSum(center.px, ch)
    IN  IF CN = 0
        THEN ClipRatio([n |-> 0, d |-> dv.n])
        ELSE IF ChannelSum(sm.num, ch) = 0
        THEN \* center_mean / 1e-8 with center_mean >= 1/w: far above 1.2
             ClipRatio([n |-> 2, d |-> 1])
        ELSE ClipRatio([n |-> CN * dv.d, d |-> center.w * dv.n])

\* corrected = smoothed_frame * color_ratio, sample by sample
apply_color_consistency(sm, center) ==
    [ratio   |-> [ch \in 1..Channels |-> ColorRatio(sm, center, ch)],
     divisor |-> [ch \in 1..Channels |-> SmoothedMeanPlusEps(sm, ch)],
     samples |-> [p \in 1..sm.w |-> [ch \in 1..Channels |->
        LET r == ColorRatio(sm, center, ch)
        IN  IF r.clipped
            THEN FloatSample(sm.num[p][ch], r.n, sm.den * r.d)
            ELSE FloatSample(sm.num[p][ch],
                             ChannelSum(center.px, ch) * sm.w,
                             center.w * ChannelSum(sm.num, ch))]]]

(***************************************************************************)
(* float32 evaluation of the enhanced smoother.  On a window of identical  *)
(* frames the exact result is the frame itself; the blend, the two means,  *)
(* the quotient and the product are each rounded to float32, and for a     *)
(* frame of one pixel the ratio makes up for the blend's error, for a      *)
(* frame of several pixels it need not.  The cases where the stored        *)
(* product lies below the sample are tabulated for the frames of           *)
(* FramePool, windows of up to 7 frames and centres up to 3: they are      *)
(* all in channel 1 of Wide.  On any other window it is the per-call       *)
(* choice `below`.                                                         *)
(***************************************************************************)
ConstantWindow(win) == \A k \in 1..Len(win) : win[k] = win[1]

Float32BelowCorrected(promo, center_idx, win, ch, below) ==
    IF ConstantWindow(win)
    THEN /\ win[1] = Wide
         /\ ch = 1
         /\ \/ <<Len(win), center_idx>> \in {<<4, 0>>, <<6, 2>>, <<6, 3>>}
            \/ promo = "nep50" /\ <<Len(win), center_idx>> = <<4, 2>>
    ELSE below

(***************************************************************************)
(* DiffusionService._enhanced_temporal_smooth: decay 1.0, then the colour  *)
(* correction against float_frames[center_idx], then one conversion.       *)
(***************************************************************************)
\* faulty variant: the blend converted to uint8 before the colour correction
enhanced_smooth_requantized(win, center_idx, promo, below) ==
    IF Len(win) = 1
    THEN [raised |-> FALSE, alias |-> TRUE, frame |-> win[1],
          weights |-> NoWeights, ratio |-> <<>>, divisor |-> <<>>,
          samples |-> <<>>]
    ELSE LET wts == EnhancedWeights(Len(win), center_idx)
             sm  == WeightedSum(win, wts)
         IN  IF sm.raised \/ center_idx + 1 > Len(win)
             THEN [raised |-> TRUE, alias |-> FALSE, frame |-> NoFrame,
                   weights |-> wts, ratio |-> <<>>, divisor |-> <<>>,
                   samples |-> <<>>]
             ELSE LET b  == [raised |-> FALSE, w |-> sm.w, den |-> 1,
                             num |-> [p \in 1..sm.w |-> [ch \in 1..Channels |->
                                ClipToUint8(FloatSample(sm.num[p][ch], 1,
                                                        sm.den), FALSE)]]]
                      cc == apply_color_consistency(b, win[center_idx + 1])
                  IN  [raised |-> FALSE, alias |-> FALSE, weights |-> wts,
                       frame  |-> ToUint8Frame(sm.w, cc.samples,
                                    [ch \in 1..Channels |->
                                       Float32BelowCorrected(promo,
                                         center_idx, win, ch, below)]),
                       ratio  |-> cc.ratio, divisor |-> cc.divisor,
                       samples |-> cc.samples]

enhanced_temporal_smooth(win, center_idx, promo, below) ==
    IF Len(win) = 1
    THEN [raised |-> FALSE, alias |-> TRUE, frame |-> win[1],
          weights |-> NoWeights, ratio |-> <<>>, divisor |-> <<>>,
          samples |-> <<>>]
    ELSE LET wts == EnhancedWeights(Len(win), center_idx)
             sm  == WeightedSum(win, wts)
         IN  IF sm.raised \/ center_idx + 1 > Len(win)
             THEN [raised |-> TRUE, alias |-> FALSE, frame |-> NoFrame,
                   weights |-> wts, ratio |-> <<>>, divisor |-> <<>>,
                   samples |-> <<>>]
             ELSE LET cc == apply_color_consistency(sm, win[center_idx + 1])
                  IN  [raised |-> FALSE, alias |-> FALSE, weights |-> wts,
                       frame  |-> ToUint8Frame(sm.w, cc.samples,
                                    [ch \in 1..Channels |->
                                       Float32BelowCorrected(promo,
                                         center_idx, win, ch, below)]),
                       ratio  |-> cc.ratio, divisor |-> cc.divisor,
                       samples |-> cc.samples]

(***************************************************************************)
(* State.  The caller owns list `frames` and the arrays in it; one call of *)
(* the smoother runs from pc = "idle" to pc = "returned".                  *)
(***************************************************************************)
VARIABLES
    arrays,             \* heap of numpy arrays: id -> frame
    lists,              \* heap of Python lists: id -> sequence of array ids
    frames,             \* the argument: id of the caller's list
    pc,                 \* "idle", "loop", "returned", "mutated"
    mode,               \* which smoother was called
    window_size,        \* the argument
    promotion,          \* numpy's promotion rules: "legacy" or "nep50"
    fp_below,           \* float32 rounding of this call (see the header)
    i,                  \* loop index, 0-based
    range_n,            \* len(frames) when range(len(frames)) was built
    consistent_frames,  \* id of the list being built (0: not yet bound)
    window,             \* what the last iteration computed (see NoWindow)
    result,             \* how the call ended and the id of the returned list
    pre,                \* the caller's list and heap before the call
    ret,                \* the returned frames' samples at return
    par_frames,         \* output list of the any-order computation
    t_frames,           \* transform_frames: id of the caller's list
    transformed_frames, \* transform_frames: id of the list being built
    frame_failed,       \* transform_frames: per frame, did the pipeline fail
    frame_size,         \* _resize_frame: (width, height) of the argument
    resized,            \* _resize_frame: how the call ended and the new size
    job_status,         \* the job table: job id -> job record
    tasks,              \* background task of each job: where it stands
    running,            \* the job whose task holds the event loop (0: none)
    response,           \* the last HTTP response sent
    request,            \* the request it answers
    scheduled,          \* per job: how often add_task scheduled its task
    uploaded_files,     \* uploads written to UPLOAD_DIR in full
    ds_pc,              \* DiffusionService's basic smoother: "idle", "loop", ...
    ds_i,               \* its loop index
    ds_consistent_frames, \* id of the list it builds (0: not yet bound)
    ds_result,          \* how its call ended and the id of the returned list
    x_pc,               \* extract_frames: "idle", "loop", "returned", "raised"
    fps,                \* cap.get(cv2.CAP_PROP_FPS), in 1/100 frames per second
    target_fps,         \* self.target_fps
    source_frames,      \* how many frames cap.read() delivers
    frame_count,        \* extract_frames: frames read so far
    sample_rate,        \* extract_frames: every sample_rate-th frame is kept
    kept,               \* extract_frames: source indices of the frames appended
    pipeline_calls,     \* SVDService: calls of self.pipeline so far
    writer_open,        \* create_video: cv2.VideoWriter has been created
    frames_written      \* create_video: frames written so far

smoother == <<arrays, lists, frames, pc, mode, window_size, promotion,
              fp_below, i, range_n, consistent_frames, window, result, pre,
              ret>>

transform == <<t_frames, transformed_frames, frame_failed>>

resizer == <<frame_size, resized>>

jobs == <<job_status, tasks, running, response, request, scheduled,
          uploaded_files>>

ds_smoother == <<ds_pc, ds_i, ds_consistent_frames, ds_result>>

extractor == <<x_pc, fps, target_fps, source_frames, frame_count, sample_rate,
               kept>>

boundary == <<pipeline_calls, writer_open, frames_written>>

\* the state of the other stages of the pipeline
stages == <<ds_smoother, extractor, boundary>>

vars == <<smoother, par_frames, transform, resizer, jobs, stages>>

NoWindow == [start_idx |-> 0, end_idx |-> 0, center |-> 0,
             weights |-> NoWeights, color_ratio |-> <<>>,
             divisor |-> <<>>, samples |-> <<>>]

\* status "returned": the call returned list `list`; "raised": it raised `kind`
NoResult == [status |-> "pending", list |-> 0, kind |-> None]
ReturnList(id) == [status |-> "returned", list |-> id, kind |-> None]

NoSize == [w |-> 0, h |-> 0]

NoResponse == [code |-> 0, job |-> 0, body |-> <<>>]

NoRequest == [op |-> None, job |-> 0]

\* nothing called yet
SmootherIdle ==
    /\ mode = None
    /\ window_size = 0
    /\ fp_below = FALSE
    /\ i = 0
    /\ range_n = 0
    /\ consistent_frames = 0
    /\ window = NoWindow
    /\ result = NoResult
    /\ ret = <<>>
    /\ par_frames = 0

TransformIdle ==
    /\ t_frames = 0
    /\ transformed_frames = 0
    /\ frame_failed = <<>>

ResizerIdle ==
    /\ frame_size = NoSize
    /\ resized = [status |-> "pending", size |-> NoSize]

JobsIdle ==
    /\ job_status = <<>>
    /\ tasks = <<>>
    /\ running = 0
    /\ response = NoResponse
    /\ request = NoRequest
    /\ scheduled = <<>>
    /\ uploaded_files = 0

DsIdle ==
    /\ ds_pc = "idle"
    /\ ds_i = 0
    /\ ds_consistent_frames = 0
    /\ ds_result = NoResult

ExtractorIdle ==
    /\ x_pc = "idle"
    /\ fps = 0
    /\ target_fps = 0
    /\ source_frames = 0
    /\ frame_count = 0
    /\ sample_rate = 0
    /\ kept = <<>>

BoundaryIdle ==
    /\ pipeline_calls = 0
    /\ writer_open = FALSE
    /\ frames_written = 0

StagesIdle ==
    /\ DsIdle
    /\ ExtractorIdle
    /\ BoundaryIdle

\* the caller holds list 1 with one array per frame of `input`
InitOn(inputs) ==
    /\ \E input \in inputs :
          /\ arrays = input
          /\ lists = << [k \in 1..Len(input) |-> k] >>
          /\ pre = [ids |-> [k \in 1..Len(input) |-> k], arrays |-> input]
    /\ promotion \in Promotions
    /\ frames = 1
    /\ pc = "idle"
    /\ SmootherIdle
    /\ TransformIdle
    /\ ResizerIdle
    /\ JobsIdle
    /\ StagesIdle

Init == InitOn(InputSeqs)

\* faulty variant: consistent_frames = frames (the caller's list, id 1)
NewListAliased(ls) == [lists |-> ls, id |-> 1]

\* consistent_frames = []
NewList(ls) == [lists |-> Append(ls, <<>>), id |-> Len(ls) + 1]

\* faulty variant: the comparison turned around
PassThroughInverted(n, ws) == n > ws

\* if len(frames) < window_size: return frames
PassThrough(n, ws) == n < ws

\* faulty variant: range(len(frames) - 1)
LoopRangeShort(n) == n - 1

\* range(len(frames)): the number of iterations, fixed when the loop starts
LoopRange(n) == n

Values(ls, arr, id) == [k \in 1..Len(ls[id]) |-> arr[ls[id][k]]]

\* entering the try block: the pass-through test, else the empty result list
Enter(m, ws, fb) ==
    /\ pc = "idle"
    /\ mode' = m
    /\ window_size' = ws
    /\ fp_below' = fb
    /\ IF PassThrough(Len(lists[frames]), ws)
       THEN /\ pc' = "returned"
            /\ result' = ReturnList(frames)
            /\ ret' = Values(lists, arrays, frames)
            /\ UNCHANGED <<lists, consistent_frames, range_n>>
       ELSE /\ pc' = "loop"
            /\ lists' = NewList(lists).lists
            /\ consistent_frames' = NewList(lists).id
            /\ range_n' = LoopRange(Len(lists[frames]))
            /\ UNCHANGED <<result, ret>>
    /\ UNCHANGED <<arrays, frames, promotion, i, window, pre>>
    /\ UNCHANGED <<par_frames, transform, resizer, jobs, stages>>

apply_temporal_consistency ==
    \E ws \in 1..MaxWindow : Enter("basic", ws, FALSE)

apply_enhanced_temporal_consistency ==
    \E ws \in 1..MaxWindow, fb \in BOOLEAN : Enter("enhanced", ws, fb)

Smooth(m, win, center_idx, promo, below) ==
    IF m = "basic"
    THEN temporal_smooth(win, center_idx, promo)
    ELSE enhanced_temporal_smooth(win, center_idx, promo, below)

\* the body of `for i in range(len(frames))` for index j
SmoothedAt(j) ==
    LET fl   == lists[frames]
        s    == StartIdx(j, window_size)
        e    == EndIdx(j, window_size, Len(fl))
        ids  == Slice(fl, s, e)
        r    == Smooth(mode, [k \in 1..Len(ids) |-> arrays[ids[k]]], j - s,
                       promotion, fp_below)
    IN  [start_idx |-> s, end_idx |-> e, ids |-> ids, r |-> r]

Smoothed == SmoothedAt(i)

\* smoothed_frame computed and appended
LoopBody ==
    /\ pc = "loop"
    /\ i < range_n
    /\ ~Smoothed.r.raised
    /\ LET b  == Smoothed
           id == IF b.r.alias THEN b.ids[1] ELSE Len(arrays) + 1
       IN  /\ arrays' = IF b.r.alias THEN arrays ELSE Append(arrays, b.r.frame)
           /\ lists' = [lists EXCEPT ![consistent_frames] = Append(@, id)]
           /\ window' = [start_idx |-> b.start_idx, end_idx |-> b.end_idx,
                         center |-> i - b.start_idx,
                         weights |-> b.r.weights, color_ratio |-> b.r.ratio,
                         divisor |-> b.r.divisor, samples |-> b.r.samples]
    /\ i' = i + 1
    /\ UNCHANGED <<frames, pc, mode, window_size, promotion, fp_below,
                   range_n, consistent_frames, result, pre, ret>>
    /\ UNCHANGED <<par_frames, transform, resizer, jobs, stages>>

\* except Exception as e: ... return frames
LoopRaises ==
    /\ pc = "loop"
    /\ i < range_n
    /\ Smoothed.r.raised
    /\ pc' = "returned"
    /\ result' = ReturnList(frames)
    /\ ret' = Values(lists, arrays, frames)
    /\ UNCHANGED <<arrays, lists, frames, mode, window_size, promotion,
                   fp_below, i, range_n, consistent_frames, window, pre>>
    /\ UNCHANGED <<par_frames, transform, resizer, jobs, stages>>

\* return consistent_frames
LoopReturn ==
    /\ pc = "loop"
    /\ i = range_n
    /\ pc' = "returned"
    /\ result' = ReturnList(consistent_frames)
    /\ ret' = Values(lists, arrays, consistent_frames)
    /\ UNCHANGED <<arrays, lists, frames, mode, window_size, promotion,
                   fp_below, i, range_n, consistent_frames, window, pre>>
    /\ UNCHANGED <<par_frames, transform, resizer, jobs, stages>>

\* The caller, after the call: frame[...] = 255 - frame on one of its frames
Inverted(f) ==
    [w |-> f.w, px |-> [p \in 1..f.w |-> [ch \in 1..Channels |->
                          255 - f.px[p][ch]]]]

CallerMutatesInput ==
    /\ pc = "returned"
    /\ \E k \in 1..Len(lists[frames]) :
          arrays' = [arrays EXCEPT ![lists[frames][k]] = Inverted(@)]
    /\ pc' = "mutated"
    /\ UNCHANGED <<lists, frames, mode, window_size, promotion, fp_below, i,
                   range_n, consistent_frames, window, result, pre, ret>>
    /\ UNCHANGED <<par_frames, transform, resizer, jobs, stages>>

Next ==
    \/ apply_temporal_consistency
    \/ apply_enhanced_temporal_consistency
    \/ LoopBody
    \/ LoopRaises
    \/ LoopReturn
    \/ CallerMutatesInput

Spec == Init /\ [][Next]_vars

(***************************************************************************)
(* The loop body evaluated in any order.  After the sequential call has    *)
(* returned, the same call is computed again on the same input by workers: *)
(* worker j evaluates the loop body for index j, reading the shared input  *)
(* list, and stores the frame in output slot j of a list allocated with    *)
(* one slot per index (0: slot still empty); its array gets the id that    *)
(* belongs to its slot.  A worker whose window raises ends the call the    *)
(* way the except clause does.                                             *)
(***************************************************************************)
ParSeqs == UNION {[1..n -> FramePool] : n \in 0..ParLen}

InitPar == InitOn(ParSeqs)

\* faulty variant: every worker stores into the first slot
SlotOfFirst(j) == 1

\* index j belongs to position j + 1 of the output
SlotOf(j) == j + 1

ParStart ==
    /\ pc = "returned"
    /\ IF PassThrough(Len(lists[frames]), window_size)
       THEN /\ pc' = "par_done"
            /\ par_frames' = frames
            /\ UNCHANGED <<arrays, lists>>
       ELSE /\ pc' = "par"
            /\ par_frames' = Len(lists) + 1
            /\ lists' = Append(lists, [k \in 1..range_n |-> 0])
            /\ arrays' = arrays \o [k \in 1..range_n |-> NoFrame]
    /\ UNCHANGED <<frames, mode, window_size, promotion, fp_below, i, range_n,
                   consistent_frames, window, result, pre, ret>>
    /\ UNCHANGED <<transform, resizer, jobs, stages>>

Worker(j) ==
    /\ pc = "par"
    /\ j < range_n
    /\ lists[par_frames][SlotOf(j)] = 0
    /\ ~SmoothedAt(j).r.raised
    /\ LET b  == SmoothedAt(j)
           id == IF b.r.alias THEN b.ids[1]
                 ELSE Len(arrays) - range_n + j + 1
       IN  /\ arrays' = IF b.r.alias THEN arrays
                        ELSE [arrays EXCEPT ![id] = b.r.frame]
           /\ lists' = [lists EXCEPT ![par_frames][SlotOf(j)] = id]
    /\ UNCHANGED <<frames, pc, mode, window_size, promotion, fp_below, i,
                   range_n, consistent_frames, window, result, pre, ret>>
    /\ UNCHANGED <<par_frames, transform, resizer, jobs, stages>>

WorkerRaises(j) ==
    /\ pc = "par"
    /\ j < range_n
    /\ lists[par_frames][SlotOf(j)] = 0
    /\ SmoothedAt(j).r.raised
    /\ pc' = "par_done"
    /\ par_frames' = frames
    /\ UNCHANGED <<arrays, lists, frames, mode, window_size, promotion,
                   fp_below, i, range_n, consistent_frames, window, result,
                   pre, ret>>
    /\ UNCHANGED <<transform, resizer, jobs, stages>>

ParJoin ==
    /\ pc = "par"
    /\ \A k \in 1..range_n : lists[par_frames][k] # 0
    /\ pc' = "par_done"
    /\ UNCHANGED <<arrays, lists, frames, mode, window_size, promotion,
                   fp_below, i, range_n, consistent_frames, window, result,
                   pre, ret>>
    /\ UNCHANGED <<par_frames, transform, resizer, jobs, stages>>

NextPar ==
    \/ apply_temporal_consistency
    \/ apply_enhanced_temporal_consistency
    \/ LoopBody
    \/ LoopRaises
    \/ LoopReturn
    \/ ParStart
    \/ \E j \in 0..(ParLen - 1) : Worker(j)
    \/ \E j \in 0..(ParLen - 1) : WorkerRaises(j)
    \/ ParJoin

SpecPar == InitPar /\ [][NextPar]_vars

(***************************************************************************)
(* DiffusionService.transform_frames: one pipeline call per frame, the     *)
(* original frame standing in when the call fails, then the enhanced       *)
(* smoother with its default window_size.  The image the pipeline returns  *)
(* has the pipeline's size, not the frame's.                               *)
(***************************************************************************)
EnhancedDefaultWindow == 5

TransformPool == {Tint, Wide}

\* the frames of one video: extract_frames gives them all one size
TransformSeqs ==
    {[k \in 1..n |-> f] : n \in 0..TMaxLen, f \in TransformPool}

\* np.array(generated_image)
GeneratedFrame == White

InitTransform ==
    /\ \E input \in TransformSeqs :
          /\ arrays = input
          /\ lists = << [k \in 1..Len(input) |-> k] >>
    /\ pre = [ids |-> <<>>, arrays |-> <<>>]
    /\ promotion \in Promotions
    /\ frames = 0
    /\ pc = "t_idle"
    /\ SmootherIdle
    /\ t_frames = 1
    /\ transformed_frames = 0
    /\ frame_failed = <<>>
    /\ ResizerIdle
    /\ JobsIdle
    /\ StagesIdle

\* if not frames: raise ValueError(...); else transformed_frames = []
transform_frames ==
    /\ pc = "t_idle"
    /\ IF Len(lists[t_frames]) = 0
       THEN /\ pc' = "t_raised"
            /\ result' = [status |-> "raised", list |-> 0,
                          kind |-> "ValueError"]
            /\ UNCHANGED <<lists, transformed_frames>>
       ELSE /\ pc' = "t_loop"
            /\ lists' = NewList(lists).lists
            /\ transformed_frames' = NewList(lists).id
            /\ UNCHANGED result
    /\ UNCHANGED <<arrays, frames, mode, window_size, promotion, fp_below, i,
                   range_n, consistent_frames, window, pre, ret>>
    /\ UNCHANGED <<par_frames, t_frames, frame_failed, resizer, jobs, stages>>

\* faulty variant: a frame whose transformation failed is left out
OnFailureDropped(ls, orig) == ls

\* except Exception: return frame, which the loop appends
OnFailure(ls, orig) == Append(ls, orig)

\* _transform_single_frame returned the generated image
TransformFrameOk ==
    /\ pc = "t_loop"
    /\ i < Len(lists[t_frames])
    /\ arrays' = Append(arrays, GeneratedFrame)
    /\ lists' = [lists EXCEPT ![transformed_frames] =
                    Append(@, Len(arrays) + 1)]
    /\ frame_failed' = Append(frame_failed, FALSE)
    /\ i' = i + 1
    /\ UNCHANGED <<frames, pc, mode, window_size, promotion, fp_below,
                   range_n, consistent_frames, window, result, pre, ret>>
    /\ UNCHANGED <<par_frames, t_frames, transformed_frames, resizer, jobs, stages>>

\* _transform_single_frame caught an exception
TransformFrameFails ==
    /\ pc = "t_loop"
    /\ i < Len(lists[t_frames])
    /\ lists' = [lists EXCEPT ![transformed_frames] =
                    OnFailure(@, lists[t_frames][i + 1])]
    /\ frame_failed' = Append(frame_failed, TRUE)
    /\ i' = i + 1
    /\ UNCHANGED <<arrays, frames, pc, mode, window_size, promotion, fp_below,
                   range_n, consistent_frames, window, result, pre, ret>>
    /\ UNCHANGED <<par_frames, t_frames, transformed_frames, resizer, jobs, stages>>

\* the call self._apply_enhanced_temporal_consistency(transformed_frames)
CallSmoothing ==
    /\ pc = "t_loop"
    /\ i = Len(lists[t_frames])
    /\ frames' = transformed_frames
    /\ pre' = [ids    |-> lists[transformed_frames],
               arrays |-> Values(lists, arrays, transformed_frames)]
    /\ i' = 0
    /\ pc' = "idle"
    /\ UNCHANGED <<arrays, lists, mode, window_size, promotion, fp_below,
                   range_n, consistent_frames, window, result, ret>>
    /\ UNCHANGED <<par_frames, transform, resizer, jobs, stages>>

SmoothTransformed ==
    \E fb \in BOOLEAN : Enter("enhanced", EnhancedDefaultWindow, fb)

\* return consistent_frames
TransformReturn ==
    /\ pc = "returned"
    /\ pc' = "t_returned"
    /\ UNCHANGED <<arrays, lists, frames, mode, window_size, promotion,
                   fp_below, i, range_n, consistent_frames, window, result,
                   pre, ret>>
    /\ UNCHANGED <<par_frames, transform, resizer, jobs, stages>>

NextTransform ==
    \/ transform_frames
    \/ TransformFrameOk
    \/ TransformFrameFails
    \/ CallSmoothing
    \/ SmoothTransformed
    \/ LoopBody
    \/ LoopRaises
    \/ LoopReturn
    \/ TransformReturn

SpecTransform == InitTransform /\ [][NextTransform]_vars

\* no frame list in play
NoSmoother ==
    /\ arrays = <<>>
    /\ lists = <<>>
    /\ pre = [ids |-> <<>>, arrays |-> <<>>]
    /\ promotion = None
    /\ frames = 0
    /\ pc = "idle"
    /\ SmootherIdle
    /\ TransformIdle

(***************************************************************************)
(* VideoProcessor._resize_frame, on the size of its argument.              *)
(*   scale = min(target_width / width, target_height / height)             *)
(*   if scale < 1: cv2.resize(frame, (int(width*scale), int(height*scale)))*)
(* The quotient and the products are float64.  dim * (num / den) can only  *)
(* miss floor(dim * num / den) when the exact product is an integer and    *)
(* the float product lies below it; Float64Below lists the sizes of        *)
(* Widths and Heights for which it does.  cv2.resize raises for a target   *)
(* size with a zero side.                                                  *)
(***************************************************************************)
MaxResolution == [w |-> 1920, h |-> 1080]

Widths == {1, 640, 1920, 1921, 2140, 2148, 2560, 3840, 7680}

Heights == {1, 480, 1080, 1081, 1208, 1440, 2140, 2160, 4320}

Float64Below(dim, num, den) ==
    <<dim, num, den>> \in {<<2140, 1080, 2140>>, <<2148, 1920, 2148>>}

\* int(dim * scale) with scale = num / den
ScaledDim(dim, num, den) ==
    IF (dim * num) % den = 0 /\ Float64Below(dim, num, den)
    THEN (dim * num) \div den - 1
    ELSE (dim * num) \div den

\* scale = min(target_width / width, target_height / height) as num / den
Scale(w, h) ==
    IF MaxResolution.w * h <= MaxResolution.h * w
    THEN [num |-> MaxResolution.w, den |-> w]
    ELSE [num |-> MaxResolution.h, den |-> h]

resize_frame(w, h) ==
    LET sc == Scale(w, h)
        nw == ScaledDim(w, sc.num, sc.den)
        nh == ScaledDim(h, sc.num, sc.den)
    IN  IF sc.num >= sc.den
        THEN [status |-> "returned", size |-> [w |-> w, h |-> h]]
        ELSE IF nw = 0 \/ nh = 0
        THEN [status |-> "raised", size |-> NoSize]
        ELSE [status |-> "returned", size |-> [w |-> nw, h |-> nh]]

InitResize ==
    /\ NoSmoother
    /\ frame_size \in [w : Widths, h : Heights]
    /\ resized = [status |-> "pending", size |-> NoSize]
    /\ JobsIdle
    /\ StagesIdle

ResizeFrame ==
    /\ resized.status = "pending"
    /\ resized' = resize_frame(frame_size.w, frame_size.h)
    /\ UNCHANGED <<stages, smoother, par_frames, transform, frame_size, jobs>>

NextResize == ResizeFrame

SpecResize == InitResize /\ [][NextResize]_vars

(***************************************************************************)
(* The job table of api/endpoints/video.py.  A job id is the position of   *)
(* the job in job_status (uuid4 ids are fresh).  The handlers and the      *)
(* background task are coroutines of one event loop: a handler runs to     *)
(* its response in one step, and process_video_transformation, which       *)
(* awaits only coroutines that never suspend, holds the loop from its      *)
(* first statement to its last (`running`).  Each update of the job        *)
(* record is a step of its own.  The except clause of transform_video is   *)
(* left out: nothing in its try block (a dict update, add_task, building   *)
(* the response) raises.  SVDService() reads settings.SVD_MODEL_ID, which  *)
(* core/config.py does not declare, so with the settings of this           *)
(* repository TaskFails is the only way on from a queued task; the other   *)
(* steps are kept for a Settings that declares it.                         *)
(***************************************************************************)
Vocabulary == {"pending", "processing", "completed", "failed"}

JobIds == 1..MaxJobs

NewJob == [status |-> "uploaded", progress |-> 0, output_file |-> FALSE]

Known(j) == j <= Len(job_status)

\* a VideoStatusResponse
StatusOf(job) ==
    [status     |-> job.status,
     progress   |-> job.progress,
     output_url |-> job.status = "completed" /\ job.output_file]

Respond(code, j, body) == [code |-> code, job |-> j, body |-> body]

\* the request a handler was called with
Request(op, j) == [op |-> op, job |-> j]

InitJobs ==
    /\ NoSmoother
    /\ ResizerIdle
    /\ job_status = <<>>
    /\ tasks = <<>>
    /\ running = 0
    /\ response = Respond(0, 0, <<>>)
    /\ scheduled = <<>>
    /\ request = NoRequest
    /\ uploaded_files = 0
    /\ StagesIdle

\* faulty variant: the job is entered in the table before the file is
\* written, and stays there when writing fails
upload_video_registers_first ==
    /\ running = 0
    /\ request' = Request("upload", 0)
    /\ \E accepted \in BOOLEAN, saved \in BOOLEAN :
          IF ~accepted
          THEN /\ response' = Respond(400, 0, <<>>)
               /\ UNCHANGED <<job_status, tasks, scheduled, uploaded_files>>
          ELSE /\ Len(job_status) < MaxJobs
               /\ job_status' = Append(job_status, NewJob)
               /\ tasks' = Append(tasks, "none")
               /\ scheduled' = Append(scheduled, 0)
               /\ IF saved
                  THEN /\ uploaded_files' = uploaded_files + 1
                       /\ response' = Respond(200, Len(job_status) + 1,
                                              <<[status |-> "uploaded"]>>)
                  ELSE /\ response' = Respond(500, 0, <<>>)
                       /\ UNCHANGED uploaded_files
    /\ UNCHANGED <<stages, smoother, par_frames, transform, resizer, running>>

\* POST /upload: 400 for a bad extension or size, 500 when saving fails
upload_video ==
    /\ running = 0
    /\ request' = Request("upload", 0)
    /\ \E accepted \in BOOLEAN, saved \in BOOLEAN :
          IF ~accepted
          THEN /\ response' = Respond(400, 0, <<>>)
               /\ UNCHANGED <<job_status, tasks, scheduled, uploaded_files>>
          ELSE IF ~saved
          THEN /\ response' = Respond(500, 0, <<>>)
               /\ UNCHANGED <<job_status, tasks, scheduled, uploaded_files>>
          ELSE /\ Len(job_status) < MaxJobs
               /\ uploaded_files' = uploaded_files + 1
               /\ job_status' = Append(job_status, NewJob)
               /\ tasks' = Append(tasks, "none")
               /\ scheduled' = Append(scheduled, 0)
               /\ response' = Respond(200, Len(job_status) + 1,
                                      <<[status |-> "uploaded"]>>)
    /\ UNCHANGED <<stages, smoother, par_frames, transform, resizer, running>>

\* faulty variant: the test of the status left out
ReadyAlways(job) == TRUE

\* job_status[job_id]["status"] != "uploaded" rejects the request
ReadyForTransformation(job) == job.status = "uploaded"

\* faulty variant: the job marked completed at once
ProcessingUpdateCompleted(job) ==
    [job EXCEPT !.status = "completed", !.progress = 10]

\* job_status[job_id].update({"status": "processing", "progress": 10, ...})
ProcessingUpdate(job) == [job EXCEPT !.status = "processing", !.progress = 10]

\* POST /transform
transform_video(j) ==
    /\ running = 0
    /\ request' = Request("transform", j)
    /\ IF ~Known(j)
       THEN /\ response' = Respond(404, j, <<>>)
            /\ UNCHANGED <<job_status, tasks, scheduled>>
       ELSE IF ~ReadyForTransformation(job_status[j])
       THEN /\ response' = Respond(400, j, <<>>)
            /\ UNCHANGED <<job_status, tasks, scheduled>>
       ELSE /\ job_status' = [job_status EXCEPT ![j] = ProcessingUpdate(@)]
            /\ tasks' = [tasks EXCEPT ![j] = "queued"]
            /\ scheduled' = [scheduled EXCEPT ![j] = @ + 1]
            /\ response' = Respond(200, j, <<[status |-> "processing"]>>)
    /\ UNCHANGED <<stages, smoother, par_frames, transform, resizer, running,
                   uploaded_files>>

\* GET /status/{job_id}
get_video_status(j) ==
    /\ running = 0
    /\ request' = Request("status", j)
    /\ response' = IF Known(j)
                   THEN Respond(200, j, <<StatusOf(job_status[j])>>)
                   ELSE Respond(404, j, <<>>)
    /\ UNCHANGED <<stages, smoother, par_frames, transform, resizer,
                   job_status, tasks, running, scheduled, uploaded_files>>

\* GET /download/{job_id}; on_disk: os.path.exists(job["output_file"])
download_video(j) ==
    /\ running = 0
    /\ request' = Request("download", j)
    /\ \E on_disk \in BOOLEAN :
          response' =
              IF ~Known(j) THEN Respond(404, j, <<>>)
              ELSE IF job_status[j].status # "completed"
              THEN Respond(400, j, <<>>)
              ELSE IF ~job_status[j].output_file \/ ~on_disk
              THEN Respond(404, j, <<>>)
              ELSE Respond(200, j, <<>>)
    /\ UNCHANGED <<stages, smoother, par_frames, transform, resizer,
                   job_status, tasks, running, scheduled, uploaded_files>>

\* GET /jobs
list_jobs ==
    /\ running = 0
    /\ request' = Request("list", 0)
    /\ response' = Respond(200, 0, [j \in 1..Len(job_status) |->
                                      StatusOf(job_status[j])])
    /\ UNCHANGED <<stages, smoother, par_frames, transform, resizer,
                   job_status, tasks, running, scheduled, uploaded_files>>

\* the task starts: the services are constructed, then progress 20
TaskInit(j) ==
    /\ running = 0
    /\ Known(j)
    /\ tasks[j] = "queued"
    /\ running' = j
    /\ tasks' = [tasks EXCEPT ![j] = "extract_frames"]
    /\ job_status' = [job_status EXCEPT ![j].progress = 20]
    /\ UNCHANGED <<stages, smoother, par_frames, transform, resizer, response,
                   scheduled, request, uploaded_files>>

\* extract_frames returned, progress 40
TaskExtracted(j) ==
    /\ running = j
    /\ tasks[j] = "extract_frames"
    /\ tasks' = [tasks EXCEPT ![j] = "transform_video"]
    /\ job_status' = [job_status EXCEPT ![j].progress = 40]
    /\ UNCHANGED <<stages, smoother, par_frames, transform, resizer, running,
                   response, scheduled, request, uploaded_files>>

\* svd_service.transform_video returned, progress 80
TaskTransformed(j) ==
    /\ running = j
    /\ tasks[j] = "transform_video"
    /\ tasks' = [tasks EXCEPT ![j] = "create_video"]
    /\ job_status' = [job_status EXCEPT ![j].progress = 80]
    /\ UNCHANGED <<stages, smoother, par_frames, transform, resizer, running,
                   response, scheduled, request, uploaded_files>>

\* faulty variant: output_file left out of the update
CompletedUpdateNoFile(job) ==
    [job EXCEPT !.status = "completed", !.progress = 100]

\* job_status[job_id].update({"status": "completed", "progress": 100,
\* "output_file": output_path, ...})
CompletedUpdate(job) ==
    [job EXCEPT !.status = "completed", !.progress = 100,
                !.output_file = TRUE]

\* create_video returned
TaskCompleted(j) ==
    /\ running = j
    /\ tasks[j] = "create_video"
    /\ tasks' = [tasks EXCEPT ![j] = "done"]
    /\ job_status' = [job_status EXCEPT ![j] = CompletedUpdate(@)]
    /\ running' = 0
    /\ UNCHANGED <<stages, smoother, par_frames, transform, resizer, response,
                   scheduled, request, uploaded_files>>

\* faulty variant: a failed job starts over at progress 0
FailedUpdateReset(job) == [job EXCEPT !.status = "failed", !.progress = 0]

\* job_status[job_id].update({"status": "failed", "message": ...})
FailedUpdate(job) == [job EXCEPT !.status = "failed"]

\* faulty variant: the exception ends the task without an update
TaskFailsSilently(j) ==
    /\ Known(j)
    /\ \/ running = 0 /\ tasks[j] = "queued"
       \/ running = j /\ tasks[j] \in {"extract_frames", "transform_video",
                                        "create_video"}
    /\ tasks' = [tasks EXCEPT ![j] = "done"]
    /\ running' = 0
    /\ UNCHANGED <<stages, smoother, par_frames, transform, resizer, response,
                   job_status, scheduled, request, uploaded_files>>

\* except Exception, from a constructor or from any of the awaited calls
TaskFails(j) ==
    /\ Known(j)
    /\ \/ running = 0 /\ tasks[j] = "queued"
       \/ running = j /\ tasks[j] \in {"extract_frames", "transform_video",
                                        "create_video"}
    /\ tasks' = [tasks EXCEPT ![j] = "done"]
    /\ job_status' = [job_status EXCEPT ![j] = FailedUpdate(@)]
    /\ running' = 0
    /\ UNCHANGED <<stages, smoother, par_frames, transform, resizer, response,
                   scheduled, request, uploaded_files>>

NextJobs ==
    \/ upload_video
    \/ \E j \in JobIds : transform_video(j)
    \/ \E j \in JobIds : get_video_status(j)
    \/ \E j \in JobIds : download_video(j)
    \/ list_jobs
    \/ \E j \in JobIds : TaskInit(j)
    \/ \E j \in JobIds : TaskExtracted(j)
    \/ \E j \in JobIds : TaskTransformed(j)
    \/ \E j \in JobIds : TaskCompleted(j)
    \/ \E j \in JobIds : TaskFails(j)

SpecJobs == InitJobs /\ [][NextJobs]_vars

\* a step of the background task of job j
TaskStep(j) ==
    \/ TaskInit(j)
    \/ TaskExtracted(j)
    \/ TaskTransformed(j)
    \/ TaskCompleted(j)
    \/ TaskFails(j)

\* Starlette runs a scheduled background task once the response has been
\* sent, and every call the task awaits returns or raises
SpecJobsFair == SpecJobs /\ \A j \in JobIds : WF_vars(TaskStep(j))

(***************************************************************************)
(* DiffusionService._apply_temporal_consistency / _temporal_smooth, the    *)
(* second basic smoother.  After VideoProcessor's smoother has returned,   *)
(* this one is called on the same list with the same window_size, in the   *)
(* same process (the same numpy).                                          *)
(***************************************************************************)
EqLen == 4

EqSeqs == UNION {[1..n -> FramePool] : n \in 0..EqLen}

InitEquiv == InitOn(EqSeqs)

\* faulty variant: the decay 1.0 of the enhanced smoother
DsExpDecayOne(d) ==
    CASE d = 0 -> 100000  [] d = 1 -> 36788  [] d = 2 -> 1832   [] d = 3 -> 12

\* np.exp(-0.5 * np.square(d)) in units of 1/100000
DsExp(d) ==
    CASE d = 0 -> 100000  [] d = 1 -> 60653  [] d = 2 -> 13534  [] d = 3 -> 1111

\* weights = weights / np.sum(weights)
DsWeights(n, center_idx) ==
    LET raw == [k \in 1..n |-> DsExp(Abs((k - 1) - center_idx))]
    IN  [num |-> raw, den |-> SumSeq(raw)]

ds_temporal_smooth(win, center_idx, promo) ==
    IF Len(win) = 1
    THEN [raised |-> FALSE, alias |-> TRUE, frame |-> win[1]]
    ELSE LET sm == WeightedSum(win, DsWeights(Len(win), center_idx))
         IN  IF sm.raised
             THEN [raised |-> TRUE, alias |-> FALSE, frame |-> NoFrame]
             ELSE [raised |-> FALSE, alias |-> FALSE,
                   frame  |-> [w  |-> sm.w,
                               px |-> [p \in 1..sm.w |->
                                 [ch \in 1..Channels |->
                                   ClipToUint8(
                                     FloatSample(sm.num[p][ch], 1, sm.den),
                                     Float32Below(promo, center_idx,
                                       [k \in 1..Len(win) |->
                                          BroadcastPx(win[k], p)[ch]]))]]]]

\* the body of `for i in range(len(frames))` for index j
DsSmoothedAt(j) ==
    LET fl  == lists[frames]
        s   == Max(0, j - window_size \div 2)
        e   == Min(Len(fl), j + window_size \div 2 + 1)
        ids == Slice(fl, s, e)
    IN  [ids |-> ids,
         r   |-> ds_temporal_smooth([k \in 1..Len(ids) |-> arrays[ids[k]]],
                                    j - s, promotion)]

\* the call, with the window_size the first smoother was given
ds_apply_temporal_consistency ==
    /\ pc = "returned"
    /\ mode = "basic"
    /\ ds_pc = "idle"
    /\ IF Len(lists[frames]) < window_size
       THEN /\ ds_pc' = "returned"
            /\ ds_result' = ReturnList(frames)
            /\ UNCHANGED <<lists, ds_consistent_frames>>
       ELSE /\ ds_pc' = "loop"
            /\ lists' = Append(lists, <<>>)
            /\ ds_consistent_frames' = Len(lists) + 1
            /\ UNCHANGED ds_result
    /\ UNCHANGED <<arrays, frames, pc, mode, window_size, promotion, fp_below,
                   i, range_n, consistent_frames, window, result, pre, ret>>
    /\ UNCHANGED <<ds_i, extractor, boundary>>
    /\ UNCHANGED <<par_frames, transform, resizer, jobs>>

DsLoopBody ==
    /\ ds_pc = "loop"
    /\ ds_i < Len(lists[frames])
    /\ ~DsSmoothedAt(ds_i).r.raised
    /\ LET b  == DsSmoothedAt(ds_i)
           id == IF b.r.alias THEN b.ids[1] ELSE Len(arrays) + 1
       IN  /\ arrays' = IF b.r.alias THEN arrays ELSE Append(arrays, b.r.frame)
           /\ lists' = [lists EXCEPT ![ds_consistent_frames] = Append(@, id)]
    /\ ds_i' = ds_i + 1
    /\ UNCHANGED <<frames, pc, mode, window_size, promotion, fp_below, i,
                   range_n, consistent_frames, window, result, pre, ret>>
    /\ UNCHANGED <<ds_pc, ds_consistent_frames, ds_result, extractor, boundary>>
    /\ UNCHANGED <<par_frames, transform, resizer, jobs>>

\* except Exception as e: ... return frames
DsLoopRaises ==
    /\ ds_pc = "loop"
    /\ ds_i < Len(lists[frames])
    /\ DsSmoothedAt(ds_i).r.raised
    /\ ds_pc' = "returned"
    /\ ds_result' = ReturnList(frames)
    /\ UNCHANGED <<smoother, ds_i, ds_consistent_frames, extractor, boundary>>
    /\ UNCHANGED <<par_frames, transform, resizer, jobs>>

\* return consistent_frames
DsLoopReturn ==
    /\ ds_pc = "loop"
    /\ ds_i = Len(lists[frames])
    /\ ds_pc' = "returned"
    /\ ds_result' = ReturnList(ds_consistent_frames)
    /\ UNCHANGED <<smoother, ds_i, ds_consistent_frames, extractor, boundary>>
    /\ UNCHANGED <<par_frames, transform, resizer, jobs>>

NextEquiv ==
    \/ apply_temporal_consistency
    \/ LoopBody
    \/ LoopRaises
    \/ LoopReturn
    \/ ds_apply_temporal_consistency
    \/ DsLoopBody
    \/ DsLoopRaises
    \/ DsLoopReturn

SpecEquiv == InitEquiv /\ [][NextEquiv]_vars

(***************************************************************************)
(* VideoProcessor.extract_frames.  The frame rate of the source is kept    *)
(* in 1/100 frames per second (29.97 is 2997), target_fps is an integer.   *)
(* int(fps / target_fps) is the floor of a float64 quotient; for the       *)
(* rates of Fps the quotient is an integer, computed exactly, or no        *)
(* nearer than 1/1000 to one, so the floor of the exact quotient is what   *)
(* the code gets.  cap.get returns 0 for a source whose rate is unknown.   *)
(* Every frame of one video has the video's size.                          *)
(***************************************************************************)
MaxSource == 6

Fps == {0, 1500, 2400, 2500, 2997, 3000, 5000, 5994, 6000, 12000}

TargetFps == {24, 30}

ExtractSizes == {[w |-> 640, h |-> 480], [w |-> 3840, h |-> 2160],
                 [w |-> 3840, h |-> 1]}

InitExtract ==
    /\ NoSmoother
    /\ frame_size \in ExtractSizes
    /\ resized = [status |-> "pending", size |-> NoSize]
    /\ JobsIdle
    /\ DsIdle
    /\ BoundaryIdle
    /\ x_pc = "idle"
    /\ fps \in Fps
    /\ target_fps \in TargetFps
    /\ source_frames \in 0..MaxSource
    /\ frame_count = 0
    /\ sample_rate = 0
    /\ kept = <<>>

\* if fps > self.target_fps: int(fps / self.target_fps) else 1
SampleRate(f, t) == IF f > 100 * t THEN f \div (100 * t) ELSE 1

\* cap = cv2.VideoCapture(video_path) up to the start of the loop
extract_frames ==
    /\ x_pc = "idle"
    /\ \E opened \in BOOLEAN :
          IF ~opened
          THEN /\ x_pc' = "raised"
               /\ UNCHANGED sample_rate
          ELSE /\ x_pc' = "loop"
               /\ sample_rate' = SampleRate(fps, target_fps)
    /\ UNCHANGED <<fps, target_fps, source_frames, frame_count, kept>>
    /\ UNCHANGED <<smoother, par_frames, transform, resizer, jobs, ds_smoother,
                   boundary>>

\* a frame read, resized and appended
FrameKept ==
    /\ x_pc = "loop"
    /\ frame_count < source_frames
    /\ frame_count % sample_rate = 0
    /\ resize_frame(frame_size.w, frame_size.h).status = "returned"
    /\ resized' = resize_frame(frame_size.w, frame_size.h)
    /\ kept' = Append(kept, frame_count)
    /\ frame_count' = frame_count + 1
    /\ UNCHANGED <<x_pc, fps, target_fps, source_frames, sample_rate>>
    /\ UNCHANGED <<smoother, par_frames, transform, frame_size, jobs,
                   ds_smoother, boundary>>

\* a frame read whose resize raises: except Exception ... raise
FrameResizeFails ==
    /\ x_pc = "loop"
    /\ frame_count < source_frames
    /\ frame_count % sample_rate = 0
    /\ resize_frame(frame_size.w, frame_size.h).status = "raised"
    /\ resized' = resize_frame(frame_size.w, frame_size.h)
    /\ x_pc' = "raised"
    /\ UNCHANGED <<fps, target_fps, source_frames, frame_count, sample_rate,
                   kept>>
    /\ UNCHANGED <<smoother, par_frames, transform, frame_size, jobs,
                   ds_smoother, boundary>>

\* a frame read and passed over
FrameSkipped ==
    /\ x_pc = "loop"
    /\ frame_count < source_frames
    /\ frame_count % sample_rate # 0
    /\ frame_count' = frame_count + 1
    /\ UNCHANGED <<x_pc, fps, target_fps, source_frames, sample_rate, kept>>
    /\ UNCHANGED <<smoother, par_frames, transform, resizer, jobs, ds_smoother,
                   boundary>>

\* cap.read() returns ret = False: break, cap.release(), return frames
ExtractReturn ==
    /\ x_pc = "loop"
    /\ frame_count = source_frames
    /\ x_pc' = "returned"
    /\ UNCHANGED <<fps, target_fps, source_frames, frame_count, sample_rate,
                   kept>>
    /\ UNCHANGED <<smoother, par_frames, transform, resizer, jobs, ds_smoother,
                   boundary>>

NextExtract ==
    \/ extract_frames
    \/ FrameKept
    \/ FrameResizeFails
    \/ FrameSkipped
    \/ ExtractReturn

SpecExtract == InitExtract /\ [][NextExtract]_vars

(***************************************************************************)
(* The functions that take a frame list at the boundaries of the           *)
(* pipeline: DiffusionService.transform_frames (above),                    *)
(* SVDService.transform_video, SVDService.transform_video_with_control     *)
(* and VideoProcessor.create_video.  t_frames is the list passed in.       *)
(* The two SVDService functions differ in the parameters they hand to the  *)
(* pipeline, not in their control flow.                                    *)
(***************************************************************************)
BoundaryEntries == {"t_idle", "sv_idle", "svc_idle", "cv_idle"}

\* the number of frames the video pipeline may return here
GeneratedCounts == 1..2

InitBoundary ==
    /\ \E input \in TransformSeqs :
          /\ arrays = input
          /\ lists = << [k \in 1..Len(input) |-> k] >>
    /\ pre = [ids |-> <<>>, arrays |-> <<>>]
    /\ promotion \in Promotions
    /\ frames = 0
    /\ pc \in BoundaryEntries
    /\ SmootherIdle
    /\ t_frames = 1
    /\ transformed_frames = 0
    /\ frame_failed = <<>>
    /\ ResizerIdle
    /\ JobsIdle
    /\ StagesIdle

Raised(kind) == [status |-> "raised", list |-> 0, kind |-> kind]

\* faulty variant: the test left out
NotFramesSkipped(ls) == FALSE

\* `not frames` for a list
NotFrames(ls) == Len(ls) = 0

\* if not frames: raise ValueError("No frames provided")
CheckFrames(at, raised, try) ==
    /\ pc = at
    /\ IF NotFrames(lists[t_frames])
       THEN /\ pc' = raised
            /\ result' = Raised("ValueError")
       ELSE /\ pc' = try
            /\ UNCHANGED result
    /\ UNCHANGED <<arrays, lists, frames, mode, window_size, promotion,
                   fp_below, i, range_n, consistent_frames, window, pre, ret>>
    /\ UNCHANGED <<par_frames, transform, resizer, jobs, stages>>

\* the try block of the SVDService functions: frames[0] is turned into the
\* conditioning image, the pipeline is called once, its frames are
\* collected; an exception raised on the way is logged and raised again
Generate(at, raised, returned) ==
    /\ pc = at
    /\ IF Len(lists[t_frames]) = 0
       THEN /\ pc' = raised
            /\ result' = Raised("IndexError")
            /\ UNCHANGED <<arrays, lists, pipeline_calls>>
       ELSE \/ \E called \in BOOLEAN :
                  /\ pc' = raised
                  /\ result' = Raised("Exception")
                  /\ pipeline_calls' =
                        pipeline_calls + (IF called THEN 1 ELSE 0)
                  /\ UNCHANGED <<arrays, lists>>
            \/ \E n \in GeneratedCounts :
                  /\ arrays' = arrays \o [k \in 1..n |-> GeneratedFrame]
                  /\ lists' = Append(lists, [k \in 1..n |-> Len(arrays) + k])
                  /\ result' = ReturnList(Len(lists) + 1)
                  /\ pipeline_calls' = pipeline_calls + 1
                  /\ pc' = returned
    /\ UNCHANGED <<frames, mode, window_size, promotion, fp_below, i, range_n,
                   consistent_frames, window, pre, ret>>
    /\ UNCHANGED <<par_frames, transform, resizer, jobs, ds_smoother,
                   extractor, writer_open, frames_written>>

svd_transform_video == CheckFrames("sv_idle", "sv_raised", "sv_try")

SvdGenerate == Generate("sv_try", "sv_raised", "sv_returned")

svd_transform_video_with_control ==
    CheckFrames("svc_idle", "svc_raised", "svc_try")

SvdGenerateWithControl == Generate("svc_try", "svc_raised", "svc_returned")

create_video == CheckFrames("cv_idle", "cv_raised", "cv_try")

\* frames[0].shape[:2], then out = cv2.VideoWriter(output_path, ...)
CreateWriter ==
    /\ pc = "cv_try"
    /\ IF Len(lists[t_frames]) = 0
       THEN /\ pc' = "cv_raised"
            /\ result' = Raised("IndexError")
            /\ UNCHANGED writer_open
       ELSE /\ pc' = "cv_write"
            /\ writer_open' = TRUE
            /\ UNCHANGED result
    /\ UNCHANGED <<arrays, lists, frames, mode, window_size, promotion,
                   fp_below, i, range_n, consistent_frames, window, pre, ret>>
    /\ UNCHANGED <<par_frames, transform, resizer, jobs, ds_smoother,
                   extractor, pipeline_calls, frames_written>>

\* out.write(frame_bgr) for the next frame
WriteFrame ==
    /\ pc = "cv_write"
    /\ frames_written < Len(lists[t_frames])
    /\ frames_written' = frames_written + 1
    /\ UNCHANGED <<smoother, par_frames, transform, resizer, jobs, ds_smoother,
                   extractor, pipeline_calls, writer_open>>

\* cv2.cvtColor raises on a frame: except Exception ... raise
WriteFrameFails ==
    /\ pc = "cv_write"
    /\ frames_written < Len(lists[t_frames])
    /\ pc' = "cv_raised"
    /\ result' = Raised("Exception")
    /\ UNCHANGED <<arrays, lists, frames, mode, window_size, promotion,
                   fp_below, i, range_n, consistent_frames, window, pre, ret>>
    /\ UNCHANGED <<par_frames, transform, resizer, jobs, stages>>

\* out.release(); return output_path
CreateVideoReturn ==
    /\ pc = "cv_write"
    /\ frames_written = Len(lists[t_frames])
    /\ pc' = "cv_returned"
    /\ UNCHANGED <<arrays, lists, frames, mode, window_size, promotion,
                   fp_below, i, range_n, consistent_frames, window, result,
                   pre, ret>>
    /\ UNCHANGED <<par_frames, transform, resizer, jobs, stages>>

NextBoundary ==
    \/ NextTransform
    \/ svd_transform_video
    \/ SvdGenerate
    \/ svd_transform_video_with_control
    \/ SvdGenerateWithControl
    \/ create_video
    \/ CreateWriter
    \/ WriteFrame
    \/ WriteFrameFails
    \/ CreateVideoReturn

SpecBoundary == InitBoundary /\ [][NextBoundary]_vars

(***************************************************************************)
(* Properties                                                              *)
(***************************************************************************)
InputLen == Len(pre.ids)

\* the frames of the returned list, as they are now
Returned == Values(lists, arrays, result.list)

\* a call has been made
Called == pc \in {"loop", "returned", "mutated"}

\* C1: pass-through law. Whenever a call with len(frames) < window_size has
\* returned, in either mode, the returned sequence equals the input frame for
\* frame, in the same order.
C1_PassThroughLaw ==
    (pc = "returned" /\ InputLen < window_size) =>
        /\ result.status = "returned"
        /\ Returned = pre.arrays

C1_Witness ==
    /\ pc = "returned"
    /\ mode = "enhanced"
    /\ InputLen = 2
    /\ window_size = 3
    /\ pre.arrays[1] # pre.arrays[2]

\* C2: length preservation. For a non-empty input and any positive
\* window_size, in both modes, the returned sequence has exactly len(frames)
\* frames on every path (pass-through, smoothed, exception); while the loop
\* runs, output slot k has been filled for exactly the indices k < i.
C2_LengthPreserved ==
    /\ pc = "loop" =>
          /\ Len(lists[consistent_frames]) = i
          /\ i <= InputLen
    /\ (pc = "returned" /\ InputLen >= 1) =>
          /\ result.status = "returned"
          /\ Len(lists[result.list]) = InputLen

C2_Witness ==
    /\ pc = "returned"
    /\ result.list = consistent_frames
    /\ InputLen = 4
    /\ window_size = 3
    /\ Len(lists[result.list]) = 4

\* C3: a call with an empty frame sequence fails with InvalidInput; it never
\* returns a sequence as a successful result.
C3_EmptyInputFails ==
    (pc = "returned" /\ InputLen = 0) =>
        (result.status = "raised" /\ result.kind = "InvalidInput")

\* C4: a failure during smoothing is reported to the caller; the smoother
\* hands back its unsmoothed input as a successful result only in the
\* pass-through case len(frames) < window_size.
C4_FailureIsReported ==
    (pc = "returned" /\ result = ReturnList(frames)) => InputLen < window_size

\* C5: the smoother never mutates its input. Before, during and after a call
\* (pass-through, smoothed or exception path, both modes) the caller's list
\* holds the same arrays and every one of them the same samples as before.
C5_InputNotMutated ==
    pc \in {"idle", "loop", "returned"} =>
        /\ lists[frames] = pre.ids
        /\ \A k \in 1..InputLen : arrays[pre.ids[k]] = pre.arrays[k]

C5_Witness ==
    /\ pc = "returned"
    /\ result.list = consistent_frames
    /\ mode = "enhanced"
    /\ InputLen = 3
    /\ window_size = 3
    /\ \E k \in 1..3 : Returned[k] # pre.arrays[k]

\* C6: the returned sequence shares no buffer with the input. The returned
\* list is not the caller's list, no returned frame is one of the caller's
\* arrays, and after the caller mutates its input every returned frame still
\* has the samples it had at return.
C6_NoSharedBuffers ==
    pc \in {"returned", "mutated"} =>
        /\ result.list # frames
        /\ Range(lists[result.list]) \cap Range(pre.ids) = {}
        /\ Returned = ret

\* C7: window bounds. With len(frames) >= window_size >= 1, for every output
\* index j: 0 <= start <= j < end <= len(frames), start = 0 at j = 0,
\* end = len(frames) at the last index, and center_offset = j - start is an
\* index of the window at which the window holds frames[j]; the window the
\* loop last used is the one computed for index i - 1.
C7_WindowBounds ==
    (Called /\ InputLen >= window_size /\ window_size >= 1) =>
        /\ \A j \in 0..(InputLen - 1) :
              LET s == StartIdx(j, window_size)
                  e == EndIdx(j, window_size, InputLen)
              IN  /\ 0 <= s /\ s <= j /\ j < e /\ e <= InputLen
                  /\ j = 0 => s = 0
                  /\ j = InputLen - 1 => e = InputLen
                  /\ j - s < Len(Slice(pre.ids, s, e))
                  /\ Slice(pre.ids, s, e)[j - s + 1] = pre.ids[j + 1]
        /\ (i >= 1 /\ pc = "loop") =>
              /\ 0 <= window.start_idx
              /\ window.start_idx <= i - 1
              /\ i - 1 < window.end_idx
              /\ window.end_idx <= InputLen
              /\ window.center = i - 1 - window.start_idx

C7_Witness ==
    /\ pc = "loop"
    /\ InputLen = 4
    /\ window_size = 3
    /\ i = 4
    /\ window.start_idx = 2
    /\ window.end_idx = 4
    /\ window.center = 1

\* C8: weight normalization. Every weight vector the smoother computes
\* (basic or enhanced decay, any window length and center) has non-negative
\* entries that sum to 1 within 1e-6, and an entry depends only on the
\* distance of its position from the center.
C8_WeightsNormalized ==
    (Called /\ window.weights # NoWeights) =>
        LET w == window.weights
        IN  /\ w.den > 0
            /\ \A k \in 1..Len(w.num) : w.num[k] >= 0
            /\ Abs(SumSeq(w.num) - w.den) <= w.den \div 1000000
            /\ \A j, k \in 1..Len(w.num) :
                  Abs(j - 1 - window.center) = Abs(k - 1 - window.center)
                      => w.num[j] = w.num[k]

C8_Witness ==
    /\ pc = "loop"
    /\ mode = "enhanced"
    /\ window.weights # NoWeights
    /\ Len(window.weights.num) = 3
    /\ window.center = 0

\* C9: single-frame idempotence. With window_size = 1 every window is the
\* center frame alone and, for a non-empty input in both modes, every output
\* frame equals the input frame of the same index sample for sample.
C9_SingleFrameWindow ==
    (pc = "returned" /\ window_size = 1 /\ InputLen >= 1) =>
        /\ result.list = consistent_frames
        /\ Returned = pre.arrays

C9_Witness ==
    /\ pc = "returned"
    /\ window_size = 1
    /\ mode = "enhanced"
    /\ fp_below
    /\ InputLen = 3
    /\ result.list = consistent_frames

\* C10: colour-consistency bound. In enhanced mode the factor applied to the
\* blended frame lies in [0.8, 1.2] in every channel, whatever the blended
\* and center means are, a zero blended mean included.
C10_RatioBounded ==
    (Called /\ window.color_ratio # <<>>) =>
        \A ch \in 1..Channels :
            LET r == window.color_ratio[ch]
            IN  /\ r.d > 0
                /\ 4 * r.d <= 5 * r.n
                /\ 5 * r.n <= 6 * r.d

\* a window of black frames: the blended mean is zero in every channel
C10_Witness ==
    /\ pc = "returned"
    /\ mode = "enhanced"
    /\ pre.arrays = <<Black, Black>>
    /\ window_size = 2
    /\ result.list = consistent_frames
    /\ window.color_ratio[1] = [n |-> 4, d |-> 5, clipped |-> TRUE]

\* C11: constant-sequence fixed point (basic mode). Whenever a basic-mode
\* call on n >= window_size identical frames has returned, the returned
\* sequence equals the input sample for sample.
C11_ConstantFixedPoint ==
    (/\ pc = "returned"
     /\ mode = "basic"
     /\ InputLen >= window_size
     /\ \A k \in 1..InputLen : pre.arrays[k] = pre.arrays[1]) =>
        Returned = pre.arrays


\* the frame the loop appended last, and the frames of the window it used
LastFrame ==
    arrays[lists[consistent_frames][Len(lists[consistent_frames])]]

WindowFrames ==
    [k \in 1..(window.end_idx - window.start_idx) |->
        pre.arrays[window.start_idx + k]]

\* the loop has just appended a frame blended from more than one frame
Blended == pc = "loop" /\ window.samples # <<>>

\* C12: flicker damping (basic mode). For every sequence of length >= 3
\* that alternates between solid 0 and solid 255, smoothed with
\* window_size = 3, every output frame, boundary frames included, has a
\* mean sample value strictly between 0 and 255.
Alternating(fs) ==
    /\ fs[1] \in {Black, White}
    /\ \A k \in 1..Len(fs) :
          fs[k] = IF (k % 2 = 1) = (fs[1] = Black) THEN Black ELSE White

SampleSum(f) == SumSeq([p \in 1..f.w |-> SumSeq(f.px[p])])

C12_FlickerDamped ==
    (/\ pc = "returned"
     /\ mode = "basic"
     /\ window_size = 3
     /\ InputLen >= 3
     /\ Alternating(pre.arrays)) =>
        /\ result.list = consistent_frames
        /\ \A k \in 1..InputLen :
              /\ 0 < SampleSum(Returned[k])
              /\ SampleSum(Returned[k]) < 255 * Returned[k].w * Channels

C12_Witness ==
    /\ pc = "returned"
    /\ mode = "basic"
    /\ window_size = 3
    /\ pre.arrays = <<Black, White, Black, White>>
    /\ Returned = <<Solid(1, <<96, 96, 96>>), Solid(1, <<115, 115, 115>>),
                    Solid(1, <<139, 139, 139>>), Solid(1, <<158, 158, 158>>)>>

\* C13: quantization. Every sample of every smoothed output frame is an
\* integer in 0..255 obtained by clamping the weighted sum to [0, 255] and
\* rounding it to the nearest integer.
RoundNearest(x) ==
    IF x.q >= 255 THEN 255 ELSE IF x.half THEN x.q + 1 ELSE x.q

C13_RoundedToNearest ==
    Blended =>
        \A p \in 1..LastFrame.w : \A ch \in 1..Channels :
            /\ LastFrame.px[p][ch] \in 0..255
            /\ LastFrame.px[p][ch] = RoundNearest(window.samples[p][ch])

\* C19: enhanced-mode algorithm, as amended. For every window of more than
\* one frame the output frame is T(S * r): S is the weighted sum with decay
\* 1.0 kept in floating point, r = clip(mean(center) / (mean(S) + epsilon),
\* 0.8, 1.2) is computed from S, and T is the one final conversion, which
\* clamps to [0, 255] and drops the fraction (an integral product may come
\* out one lower). The blend is not converted to 8 bits before the
\* correction.
BlendNum(p, ch) ==
    SumSeq([k \in 1..Len(WindowFrames) |->
              window.weights.num[k] * BroadcastPx(WindowFrames[k], p)[ch]])

C19_Quantized(p, ch) ==
    RoundNearest(FloatSample(BlendNum(p, ch), 1, window.weights.den))

ZeroChannel(f, ch) == \A p \in 1..f.w : f.px[p][ch] = 0

SameSize(fs) == \A k \in 1..Len(fs) : fs[k].w = fs[1].w

C20_DivisionSafe ==
    /\ (Called /\ window.divisor # <<>>) =>
          \A ch \in 1..Channels :
              /\ window.divisor[ch].n > 0
              /\ window.divisor[ch].d > 0
    /\ (Blended /\ mode = "enhanced") =>
          \A ch \in 1..Channels :
              (\A k \in 1..Len(WindowFrames) : ZeroChannel(WindowFrames[k], ch))
                  => ZeroChannel(LastFrame, ch)
    /\ (pc = "returned" /\ mode = "enhanced" /\ InputLen >= window_size
        /\ SameSize(pre.arrays)) =>
          result.list = consistent_frames

\* a window of two frames in which the third channel is zero throughout
C20_Witness ==
    /\ Blended
    /\ mode = "enhanced"
    /\ WindowFrames = <<Black, Black>>
    /\ window.divisor[3] = [n |-> 1, d |-> 100000000]
    /\ ZeroChannel(LastFrame, 3)


TN == Len(lists[t_frames])

C15_OneToOne ==
    /\ pc = "t_loop" =>
          /\ Len(lists[transformed_frames]) = i
          /\ i <= TN
    /\ pc \in {"t_loop", "idle", "loop", "returned", "t_returned"} =>
          \A k \in 1..Len(lists[transformed_frames]) :
              (k <= Len(frame_failed) /\ frame_failed[k]) =>
                  lists[transformed_frames][k] = lists[t_frames][k]
    /\ pc \in {"idle", "loop", "returned", "t_returned"} =>
          Len(lists[transformed_frames]) = TN
    /\ pc = "t_returned" =>
          /\ TN >= 1
          /\ result.status = "returned"
          /\ Len(lists[result.list]) = TN

\* five frames, the second not transformed, smoothed by the loop
C15_Witness ==
    /\ pc = "t_returned"
    /\ TN = 5
    /\ frame_failed = <<FALSE, TRUE, FALSE, FALSE, FALSE>>
    /\ result.list = consistent_frames
    /\ Len(lists[result.list]) = 5


\* C16: _resize_frame. For every frame of width w >= 1 and height h >= 1
\* the call returns the frame unchanged when w <= W and h <= H, and
\* otherwise a frame of size (floor(w*s), floor(h*s)) with s = min(W/w, H/h)
\* < 1, of width <= W and height <= H; a frame is never upscaled.
C16_ResizeLaw ==
    resized.status # "pending" =>
        LET w == frame_size.w
            h == frame_size.h
            W == MaxResolution.w
            H == MaxResolution.h
        IN  /\ resized.status = "returned"
            /\ (w <= W /\ h <= H) => resized.size = frame_size
            /\ ~(w <= W /\ h <= H) =>
                  /\ resized.size.w =
                        IF W * h <= H * w THEN W ELSE (w * H) \div h
                  /\ resized.size.h =
                        IF W * h <= H * w THEN (h * W) \div w ELSE H
                  /\ resized.size.w <= W
                  /\ resized.size.h <= H
            /\ resized.size.w <= w
            /\ resized.size.h <= h

\* C17: job status vocabulary. In every reachable state of the job table
\* the status stored for a job, and the status reported for it in a
\* response, is one of pending, processing, completed, failed.
C17_StatusVocabulary ==
    /\ \A j \in 1..Len(job_status) : job_status[j].status \in Vocabulary
    /\ \A k \in 1..Len(response.body) : response.body[k].status \in Vocabulary

\* C18: job progress. The progress of every job is within 0..100 in every
\* reachable state, and no step of any execution decreases it.
C18_ProgressMonotone ==
    /\ [](\A j \in 1..Len(job_status) : job_status[j].progress \in 0..100)
    /\ [][\A j \in 1..Len(job_status) :
             job_status'[j].progress >= job_status[j].progress]_vars

\* a task that failed after the transformation had started, beside a job
\* that was only uploaded
C18_Witness ==
    /\ Len(job_status) = 2
    /\ job_status[1] = [status |-> "failed", progress |-> 10,
                        output_file |-> FALSE]
    /\ tasks[1] = "done"
    /\ job_status[2].progress = 0

\* C21: constant-sequence fixed point (enhanced mode). Whenever an
\* enhanced-mode call on n >= window_size identical frames has returned, the
\* returned frames equal the input sample for sample.
C21_EnhancedFixedPoint ==
    (/\ pc = "returned"
     /\ mode = "enhanced"
     /\ InputLen >= window_size
     /\ \A k \in 1..InputLen : pre.arrays[k] = pre.arrays[1]) =>
        Returned = pre.arrays
\* C22: window length. Whenever len(frames) >= window_size >= 1, the window
\* of every output index j holds at least window_size // 2 + 1 and at most
\* 2 * (window_size // 2) + 1 frames (window_size + 1 for an even
\* window_size), and exactly 2 * (window_size // 2) + 1 frames for every j
\* with window_size // 2 <= j < len(frames) - window_size // 2; the window
\* the loop last used has the length computed for index i - 1.
Half == window_size \div 2

WindowLen(j) ==
    Len(Slice(pre.ids, StartIdx(j, window_size),
              EndIdx(j, window_size, InputLen)))

C22_WindowLength ==
    (Called /\ InputLen >= window_size /\ window_size >= 1) =>
        /\ \A j \in 0..(InputLen - 1) :
              /\ WindowLen(j) >= Half + 1
              /\ WindowLen(j) <= 2 * Half + 1
              /\ window_size % 2 = 0 => 2 * Half + 1 = window_size + 1
              /\ (Half <= j /\ j < InputLen - Half) =>
                    WindowLen(j) = 2 * Half + 1
        /\ (i >= 1 /\ pc = "loop") =>
              window.end_idx - window.start_idx = WindowLen(i - 1)

\* an even window_size whose interior window has window_size + 1 frames
C22_Witness ==
    /\ pc = "loop"
    /\ window_size = 2
    /\ InputLen = 3
    /\ i = 2
    /\ window.end_idx - window.start_idx = 3

\* C23: the two basic-mode smoothers are equivalent. Called on the same
\* frames with the same explicit window_size, DiffusionService's basic
\* smoother returns what VideoProcessor's returned: the input list itself
\* exactly when the other did (pass-through, fallback on an exception), and
\* otherwise frames equal to the other's sample for sample, index by index.
C23_SmoothersEquivalent ==
    /\ (ds_pc = "loop" /\ result.list = consistent_frames) =>
          \A k \in 1..Len(lists[ds_consistent_frames]) :
              arrays[lists[ds_consistent_frames][k]] = ret[k]
    /\ ds_pc = "returned" =>
          /\ (ds_result.list = frames) = (result.list = frames)
          /\ Values(lists, arrays, ds_result.list) = ret

\* both smoothed four frames with window_size 3 and changed some of them
C23_Witness ==
    /\ ds_pc = "returned"
    /\ InputLen = 4
    /\ window_size = 3
    /\ result.list = consistent_frames
    /\ ds_result.list = ds_consistent_frames
    /\ Values(lists, arrays, ds_result.list) = ret
    /\ ret # pre.arrays

\* C24: frame sampling rate. For every source with fps > 0 and every
\* target_fps > 0, when extract_frames has returned it has kept exactly the
\* frames whose 0-based index is a multiple of sample_rate, in source order,
\* and the rate of the kept frames, fps / sample_rate, is at most
\* target_fps.
KeptAreMultiples ==
    /\ \A k \in 1..Len(kept) : kept[k] = (k - 1) * sample_rate
    /\ Len(kept) * sample_rate >= source_frames
    /\ Len(kept) > 0 => kept[Len(kept)] < source_frames

C24_SamplingRate ==
    (x_pc = "returned" /\ fps > 0 /\ target_fps > 0) =>
        /\ sample_rate >= 1
        /\ KeptAreMultiples
        /\ fps <= 100 * target_fps * sample_rate

\* C25: empty-sequence rejection at the pipeline boundaries. Given an empty
\* frame list, transform_frames, SVDService.transform_video,
\* transform_video_with_control and create_video each end by raising the
\* ValueError of their first statement: no frame has been transformed, no
\* pipeline called and no video writer created.
C25_EmptyRejected ==
    (Len(lists[t_frames]) = 0 /\ pc \notin BoundaryEntries) =>
        /\ pc \in {"t_raised", "sv_raised", "svc_raised", "cv_raised"}
        /\ result = Raised("ValueError")
        /\ frame_failed = <<>>
        /\ transformed_frames = 0
        /\ pipeline_calls = 0
        /\ ~writer_open
        /\ frames_written = 0

C25_Witness ==
    /\ Len(lists[t_frames]) = 0
    /\ pc = "cv_raised"
    /\ result = Raised("ValueError")
    /\ ~writer_open

C27_AtMostOneTask ==
    /\ \A j \in 1..Len(job_status) :
          /\ scheduled[j] <= 1
          /\ (scheduled[j] = 0) = (tasks[j] = "none")
          /\ (scheduled[j] = 0) = (job_status[j].status = "uploaded")
    /\ (request.op = "transform" /\ response.code = 200) =>
          scheduled[request.job] = 1
    /\ running # 0 =>
          /\ scheduled[running] = 1
          /\ tasks[running] \in {"extract_frames", "transform_video",
                                 "create_video"}

\* a second request for a job whose task is still queued was rejected
C27_Witness ==
    /\ Len(job_status) >= 1
    /\ scheduled[1] = 1
    /\ tasks[1] = "queued"
    /\ request = Request("transform", 1)
    /\ response = Respond(400, 1, <<>>)

\* C28: output availability. In every reachable state a job has an
\* output_file exactly when its status is completed, a completed job has
\* progress 100, and a status or list response carrying an output_url, or a
\* download response carrying the file, is about a completed job.
C28_OutputAvailability ==
    /\ \A j \in 1..Len(job_status) :
          /\ job_status[j].output_file = (job_status[j].status = "completed")
          /\ job_status[j].status = "completed" =>
                job_status[j].progress = 100
    /\ (request.op = "status" /\ response.code = 200) =>
          /\ response.body[1].output_url =>
                job_status[request.job].status = "completed"
          /\ response.body[1].status = "completed" =>
                response.body[1].output_url
    /\ request.op = "list" =>
          \A k \in 1..Len(response.body) :
              response.body[k].output_url =>
                  job_status[k].status = "completed"
    /\ (request.op = "download" /\ response.code = 200) =>
          job_status[request.job].status = "completed"

\* the status of a completed job was asked for and came with an output_url
C28_Witness ==
    /\ Len(job_status) >= 1
    /\ job_status[1] = [status |-> "completed", progress |-> 100,
                        output_file |-> TRUE]
    /\ request = Request("status", 1)
    /\ response.code = 200
    /\ response.body[1].output_url

\* C29: job termination. With the scheduled background task run and each
\* of its steps returning or raising, every job whose status is processing
\* eventually has status completed or failed, and an exception raised by
\* frame extraction, the generative model or the video encoding sets the
\* status to failed.
C29_JobTerminates ==
    /\ \A j \in JobIds :
          (Known(j) /\ job_status[j].status = "processing")
              ~> (Known(j) /\ job_status[j].status \in {"completed", "failed"})
    /\ [][\A j \in JobIds :
             TaskFails(j) => job_status'[j].status = "failed"]_vars

\* the video encoding of job 1 raised
C29_Witness ==
    /\ Len(job_status) >= 1
    /\ job_status[1] = [status |-> "failed", progress |-> 80,
                        output_file |-> FALSE]
    /\ tasks[1] = "done"
    /\ running = 0

\* C30: rejected requests leave the job table unchanged. A request answered
\* with 400, 404 or 500 (an upload with a bad extension or size, an upload
\* whose file could not be written, a request for an unknown job_id) adds no
\* job and modifies none; the table grows only by one job for an upload
\* whose file was written, so there are as many jobs as written files.
HandlerStep ==
    \/ upload_video
    \/ list_jobs
    \/ \E j \in JobIds :
          transform_video(j) \/ get_video_status(j) \/ download_video(j)

C30_RejectedUnchanged ==
    /\ [](Len(job_status) = uploaded_files)
    /\ [][(HandlerStep /\ response'.code \in {400, 404, 500}) =>
             UNCHANGED <<job_status, tasks, scheduled>>]_vars
    /\ [][Len(job_status') # Len(job_status) =>
             /\ request'.op = "upload"
             /\ response'.code = 200
             /\ Len(job_status') = Len(job_status) + 1
             /\ uploaded_files' = uploaded_files + 1]_vars

\* an upload whose file could not be written, after one that succeeded
C30_Witness ==
    /\ Len(job_status) = 1
    /\ uploaded_files = 1
    /\ request = Request("upload", 0)
    /\ response = Respond(500, 0, <<>>)


====
